---- MODULE Spec2Model ----
(***************************************************************************)
(* joiql (src/index.js): translation of Joi descriptions into GraphQL      *)
(* types, the type cache, the array/alternatives synthesizer, the union    *)
(* resolveType and the validated resolver.                                 *)
(*                                                                         *)
(* Objects with identity are modelled as heaps: `heap` holds the GraphQL   *)
(* type instances (a type is its index), a description heap holds the      *)
(* description nodes of one build (a node is its index; `descs` keeps, per *)
(* build, the nodes the build wrote to).  JS mappings are                  *)
(* sequences of [key, ...] records, so that insertion order is kept.       *)
(* JS undefined / '' (both falsy) are "" for strings and 0 for types.      *)
(***************************************************************************)
EXTENDS Integers, Sequences, FiniteSets, TLC

VARIABLES cachedTypes, idCounter, heap, descs, calls, writes, builds,
          resolved, invoked

vars == <<cachedTypes, idCounter, heap, descs, calls, writes, builds,
          resolved, invoked>>

\* Number of schema builds (calls of the exported function) explored.
MaxBuilds == 2

RECURSIVE descToType(_, _, _)
RECURSIVE descsToFields(_, _)
RECURSIVE descToArgs(_, _)
RECURSIVE makeArrayAlternativeType(_, _, _, _, _)
RECURSIVE inputFields(_, _, _, _)
RECURSIVE fieldsLoop(_, _, _, _)
RECURSIVE argsLoop(_, _, _, _)
RECURSIVE itemTypes(_, _, _, _, _)
RECURSIVE itemNames(_, _, _, _, _)
RECURSIVE objectType(_, _, _, _)
RECURSIVE assignIn(_, _, _)
RECURSIVE assign(_, _, _)
RECURSIVE join(_, _, _)
RECURSIVE find(_, _)
RECURSIVE joiValue(_, _)
RECURSIVE joiAlternatives(_, _, _)

(***************************************************************************)
(* Description nodes, as Joi's describe() produces them.                   *)
(***************************************************************************)
D(type, pres, meta, hasChildren, children, items, rules) ==
  [type |-> type, presence |-> pres, meta |-> meta,
   hasChildren |-> hasChildren, children |-> children,
   items |-> items, rules |-> rules]

\* One meta({...}) annotation; a property that is not given is "" / <<>>.
A(name, args, resolve, isTypeOf) ==
  <<[name |-> name, args |-> args, resolve |-> resolve, isTypeOf |-> isTypeOf]>>

K(key, desc) == [key |-> key, desc |-> desc]

Leaf(type, pres, rules) == D(type, pres, <<>>, FALSE, <<>>, <<>>, rules)
Obj(pres, meta, children) ==
  D("object", pres, meta, Len(children) > 0, children, <<>>, <<>>)
Arr(pres, meta, items) == D("array", pres, meta, FALSE, <<>>, items, <<>>)
Alt(pres, meta, alternatives) ==
  D("alternatives", pres, meta, FALSE, <<>>, alternatives, <<>>)

\* The descriptions of the schemas handed to the builds.  Every build
\* describes its schemas afresh, so every build starts from these nodes.
Schema ==
  << Leaf("string", "", <<>>),                                       \*  1
     Leaf("string", "required", <<>>),                               \*  2
     Leaf("boolean", "forbidden", <<>>),                             \*  3
     Leaf("number", "", <<"integer">>),                              \*  4
     Leaf("number", "", <<>>),                                       \*  5
     Leaf("number", "required", <<"integer">>),                      \*  6
     Leaf("string", "forbidden", <<>>),                              \*  7
     Leaf("date", "", <<>>),                                         \*  8
     Leaf("boolean", "", <<>>),                                      \*  9
     \* 10: field foo: object Foo with arguments and a resolver
     Obj("", A("Foo", <<K("id", 6), K("opt", 1), K("hidden", 7)>>, "getFoo", ""),
         <<K("a", 1), K("b", 3), K("c", 2)>>),
     \* 11: field node: object Node nesting another object Node (12)
     Obj("", A("Node", <<>>, "", ""), <<K("a", 5), K("b", 12), K("c", 8)>>),
     Obj("", A("Node", <<>>, "", ""), <<K("a", 1)>>),                \* 12
     \* 13: field twins: two structurally identical anonymous objects
     Obj("", <<>>, <<K("a", 14), K("b", 15)>>),
     Obj("", <<>>, <<K("a", 1)>>),                                   \* 14
     Obj("", <<>>, <<K("a", 1)>>),                                   \* 15
     \* 16, 17: two fields whose objects are both named Bar
     Obj("", A("Bar", <<>>, "getBar", ""), <<K("a", 1), K("b", 4)>>),
     Obj("required", A("Bar", <<>>, "", ""), <<K("a", 1), K("b", 4)>>),
     \* 18: field list1: anonymous array of two anonymous objects
     Arr("", <<>>, <<19, 20>>),
     Obj("", <<>>, <<K("a", 1)>>),                                   \* 19
     Obj("", <<>>, <<K("b", 9)>>),                                   \* 20
     \* 21: field list2: another anonymous array of two objects
     Arr("", <<>>, <<22, 23>>),
     Obj("", <<>>, <<K("a", 1)>>),                                   \* 22
     Obj("", <<>>, <<K("c", 5)>>),                                   \* 23
     \* 24: field pets: array of the named objects Cat and Dog
     Arr("", A("Pets", <<>>, "", ""), <<25, 26>>),
     Obj("", A("Cat", <<>>, "", ""), <<K("a", 1)>>),                 \* 25
     Obj("", A("Dog", <<>>, "", ""), <<K("b", 1)>>),                 \* 26
     \* 27: field tags: array with a forbidden item and one other item
     Arr("", <<>>, <<7, 4>>),
     \* 28: field altPS: Alternatives of P (isTypeOf) then S (by keys)
     Alt("", <<>>, <<29, 30>>),
     Obj("", A("P", <<>>, "", "hasA"), <<K("a", 1), K("b", 1)>>),    \* 29
     Obj("", A("S", <<>>, "", ""), <<K("a", 1)>>),                   \* 30
     \* 31: field altSP: the same candidates, S first
     Alt("", A("SorP", <<>>, "", ""), <<32, 33>>),
     Obj("", A("S", <<>>, "", ""), <<K("a", 1)>>),                   \* 32
     Obj("", A("P", <<>>, "", "hasA"), <<K("a", 1), K("b", 1)>>),    \* 33
     \* 34: field alt3: candidates by keys only, one branch forbidden
     Alt("", <<>>, <<35, 36, 37>>),
     Obj("", A("One", <<>>, "", ""), <<K("a", 1)>>),                 \* 35
     Obj("forbidden", A("Gone", <<>>, "", ""), <<K("c", 1)>>),       \* 36
     Obj("", A("Two", <<>>, "", ""), <<K("a", 1), K("b", 1)>>),      \* 37
     \* 38: field search: argument filter is an input object
     D("string", "", A("", <<K("filter", 39)>>, "search", ""),
       FALSE, <<>>, <<>>, <<>>),
     Obj("required", A("Filter", <<>>, "", ""),
         <<K("a", 2), K("b", 3), K("c", 5)>>),                       \* 39
     \* 40: field adopt: argument pets is an array of two objects
     D("boolean", "", A("", <<K("pets", 41), K("choice", 46)>>, "adopt", ""),
       FALSE, <<>>, <<>>, <<>>),
     Arr("", <<>>, <<42, 43>>),                                      \* 41
     Obj("", <<>>, <<K("a", 2), K("b", 1)>>),                        \* 42
     Obj("", <<>>, <<K("c", 5), K("b", 7)>>),                        \* 43
     \* 44: field hello: a string with a resolver; 45: a bare string
     D("string", "", A("", <<>>, "hello", ""), FALSE, <<>>, <<>>, <<>>),
     Leaf("string", "", <<>>),
     \* 46: argument choice of field adopt: input alternatives
     Alt("required", A("Choice", <<>>, "", ""), <<47, 48>>),
     Obj("", <<>>, <<>>),                                            \* 47
     Obj("", <<>>, <<K("a", 6)>>)                                    \* 48
  >>

\* jois: the { query, mutation } arguments of the exported function; each
\* root is a mapping of field name to schema (the schema is its description).
J(hasQuery, query, hasMutation, mutation) ==
  [hasQuery |-> hasQuery, query |-> query,
   hasMutation |-> hasMutation, mutation |-> mutation]

Jois ==
  { J(TRUE, <<K("hello", 44), K("plain", 45)>>, FALSE, <<>>),
    J(TRUE, <<K("foo", 10)>>, TRUE, <<K("node", 11)>>),
    J(TRUE, <<K("twins", 13)>>, FALSE, <<>>),
    J(TRUE, <<K("list1", 18), K("list2", 21)>>, FALSE, <<>>),
    J(TRUE, <<K("pets", 24), K("tags", 27)>>, FALSE, <<>>),
    J(TRUE, <<K("altPS", 28), K("altSP", 31)>>, FALSE, <<>>),
    J(TRUE, <<K("alt3", 34), K("tags", 27)>>, FALSE, <<>>),
    J(TRUE, <<K("bar", 16)>>, TRUE, <<K("bar2", 17)>>),
    J(FALSE, <<>>, TRUE, <<K("search", 38)>>),
    J(FALSE, <<>>, TRUE, <<K("adopt", 40)>>) }

(***************************************************************************)
(* GraphQL type instances.                                                 *)
(***************************************************************************)
\* `owner` is the description whose description text the type carries (0:
\* none), `from` the mapping an object type's fields were computed from,
\* `build` the build whose description nodes the type's closures refer to.
T(kind, name, fields, ofType, types, items, build, from, owner) ==
  [kind |-> kind, name |-> name, fields |-> fields, ofType |-> ofType,
   types |-> types, items |-> items, build |-> build, from |-> from,
   owner |-> owner]

Scalar(name) == T("Scalar", name, <<>>, 0, <<>>, <<>>, 0, <<>>, 0)

GraphQLBoolean == 1
GraphQLString == 2
GraphQLInt == 3
GraphQLFloat == 4

Scalars ==
  <<Scalar("Boolean"), Scalar("String"), Scalar("Int"), Scalar("Float")>>

\* new GraphQLX(...): a fresh instance
New(st, node) ==
  [st |-> [st EXCEPT !.heap = Append(@, node)], val |-> Len(st.heap) + 1]

EmptyCache == [n \in {} |-> 0]

\* cachedTypes[typeName], 0 when there is no entry
cached(st, typeName) ==
  IF typeName \in DOMAIN st.cachedTypes THEN st.cachedTypes[typeName] ELSE 0

\* cachedTypes[typeName] = type
cacheStore(st, typeName, type) ==
  [st EXCEPT !.cachedTypes = (typeName :> type) @@ @,
             !.writes = Append(@, [name |-> typeName, type |-> type])]

presence(desc, name) == desc.presence # "" /\ desc.presence = name

\* map(desc.meta, prop)[0]: the first annotation, whatever it carries
meta0(desc) ==
  IF Len(desc.meta) > 0 THEN desc.meta[1]
  ELSE [name |-> "", args |-> <<>>, resolve |-> "", isTypeOf |-> ""]

\* lodash capitalize over the strings that occur; capitalize(undefined) = ''
capitalize(s) ==
  CASE s = "" -> ""
    [] s = "object" -> "Object"
    [] s = "array" -> "Array"
    [] s = "alternatives" -> "Alternatives"
    [] s = "string" -> "String"
    [] s = "number" -> "Number"
    [] s = "boolean" -> "Boolean"
    [] s = "date" -> "Date"
    [] s \in {"Foo", "Node", "Bar", "Pets", "Cat", "Dog", "P", "S", "One",
              "Gone", "Two", "Filter", "Choice"} -> s
    [] s = "SorP" -> "Sorp"

\* d.meta.name: `name` read off the annotation list itself, which is an
\* array and has no such property
metaArrayName(meta) == ""

orElse(a, b) == IF a # "" THEN a ELSE b

\* Mutant of typeNameOf: the anonymous name without the counter.
typeNameNoId(isInput, name, id) ==
  (IF isInput THEN "Input" ELSE "") \o (IF name # "" THEN name ELSE "Anon")

\* (isInput ? 'Input' : '') + (name || 'Anon' + uniqueId())
typeNameOf(isInput, name, id) ==
  (IF isInput THEN "Input" ELSE "") \o
  (IF name # "" THEN name ELSE "Anon" \o ToString(id))

join(names, sep, i) ==
  IF i > Len(names) THEN ""
  ELSE IF i = Len(names) THEN names[i]
  ELSE names[i] \o sep \o join(names, sep, i + 1)

\* Mutant of notForbidden: the filter forgotten.
notForbiddenNoFilter(st, ids) == ids

\* desc.items.filter((item) => !presence(item, 'forbidden'))
notForbidden(st, ids) ==
  LET keep(i) == ~presence(st.descs[i], "forbidden") IN SelectSeq(ids, keep)

\* assign(target, source): own keys of source copied onto target
assignIn(target, source, i) ==
  IF i > Len(source) THEN target
  ELSE LET at == {j \in 1..Len(target) : target[j].key = source[i].key}
           t2 == IF at = {} THEN Append(target, source[i])
                 ELSE [j \in 1..Len(target) |->
                         IF j \in at THEN source[i] ELSE target[j]]
       IN assignIn(t2, source, i + 1)

\* assign(children[0], children[1], ...): undefined sources are skipped
assign(st, target, rest) ==
  IF Len(rest) = 0 THEN target
  ELSE LET d == st.descs[Head(rest)]
       IN assign(st, IF d.hasChildren THEN assignIn(target, d.children, 1)
                     ELSE target, Tail(rest))

\* The operators below thread the translation state st (cache, counter,
\* type heap, description heap, logs) through the recursion; each returns
\* [st, val].  A step that uses the result of a recursive call is an operator
\* of its own taking that result as parameter.

\* cachedTypes[typeName] = type; return type  (object, cache miss)
objectNew(build, id, isInput, typeName, from, f) ==
  LET n == New(f.st, T(IF isInput THEN "InputObject" ELSE "Object",
                       typeName, f.val, 0, <<>>, <<>>, build, from, id))
  IN [st |-> cacheStore(n.st, typeName, n.val), val |-> n.val]

objectType(st, id, isInput, typeName) ==
  IF cached(st, typeName) # 0 THEN [st |-> st, val |-> cached(st, typeName)]
  ELSE objectNew(st.build, id, isInput, typeName, st.descs[id].children,
                 IF isInput
                 THEN inputFields(st, st.descs[id].children, 1, <<>>)
                 ELSE descsToFields(st, st.descs[id].children))

inputFieldsNext(children, i, acc, t) ==
  inputFields(t.st, children, i + 1,
    Append(acc, [key |-> children[i].key, type |-> t.val, args |-> <<>>,
                 desc |-> children[i].desc, resolve |-> FALSE]))

\* omitBy(mapValues(desc.children, ...), isNull) of the input object
inputFields(st, children, i, acc) ==
  IF i > Len(children) THEN [st |-> st, val |-> acc]
  ELSE IF presence(st.descs[children[i].desc], "forbidden")
       THEN inputFields(st, children, i + 1, acc)
  ELSE inputFieldsNext(children, i, acc,
                       descToType(st, children[i].desc, TRUE))

itemTypesNext(items, isInput, i, acc, t) ==
  itemTypes(t.st, items, isInput, i + 1, Append(acc, t.val))

\* items.map((item) => descToType(item, isInput))
itemTypes(st, items, isInput, i, acc) ==
  IF i > Len(items) THEN [st |-> st, val |-> acc]
  ELSE itemTypesNext(items, isInput, i, acc,
                     descToType(st, items[i], isInput))

\* map(items, (d) => ...): the names joined into the composite name
itemNames(st, items, isInput, i, acc) ==
  IF i > Len(items) THEN [st |-> st, val |-> acc]
  ELSE LET d == st.descs[items[i]]
           n == orElse(IF Len(d.meta) > 0
                       THEN capitalize(metaArrayName(d.meta)) ELSE "",
                       capitalize(d.type))
           st1 == IF n # "" THEN st ELSE [st EXCEPT !.idCounter = @ + 1]
           name == IF n # "" THEN n ELSE "Anon" \o ToString(st1.idCounter)
       IN itemNames(st1, items, isInput, i + 1,
            Append(acc, (IF isInput THEN "Input" ELSE "") \o name))

\* if (!cachedTypes[typeName]) cachedTypes[typeName] = type
cacheIfAbsent(typeName, t) ==
  [st |-> IF cached(t.st, typeName) = 0
          THEN cacheStore(t.st, typeName, t.val) ELSE t.st,
   val |-> t.val]

\* return new GraphQLList(type)
arrayEnd(build, t) ==
  New(t.st, T("List", "", <<>>, t.val, <<>>, <<>>, build, <<>>, 0))

arrayMany(isInput, id, items, n) ==
  cacheIfAbsent(join(n.val, "Or", 1),
    makeArrayAlternativeType(n.st, isInput, join(n.val, "Or", 1), id, items))

arrayItems(st, id, isInput, typeName, items) ==
  arrayEnd(st.build,
    IF Len(items) = 1
    THEN cacheIfAbsent(typeName, descToType(st, items[1], isInput))
    ELSE arrayMany(isInput, id, items,
                   itemNames(st, items, isInput, 1, <<>>)))

arrayType(st, id, isInput, typeName) ==
  arrayItems(st, id, isInput, typeName, notForbidden(st, st.descs[id].items))

alternativesType(st, id, isInput, typeName) ==
  cacheIfAbsent(typeName,
    makeArrayAlternativeType(st, isInput, typeName, id,
                             notForbidden(st, st.descs[id].items)))

\* return required ? new GraphQLNonNull(type) : type
descToTypeEnd(build, id, isInput, required, t) ==
  LET w == IF required
           THEN New(t.st, T("NonNull", "", <<>>, t.val, <<>>, <<>>, build,
                            <<>>, 0))
           ELSE t
  IN [st |-> [w.st EXCEPT !.calls =
                Append(@, [build |-> build, desc |-> id,
                           isInput |-> isInput, ret |-> w.val])],
      val |-> w.val]

descToTypeByKind(st1, id, isInput, typeName) ==
  LET desc == st1.descs[id]
      isInteger == \E r \in 1..Len(desc.rules) : desc.rules[r] = "integer"
  IN CASE desc.type = "boolean" -> [st |-> st1, val |-> GraphQLBoolean]
       [] desc.type = "date" -> [st |-> st1, val |-> GraphQLString]
       [] desc.type = "string" -> [st |-> st1, val |-> GraphQLString]
       [] desc.type = "number" ->
            [st |-> st1,
             val |-> IF isInteger THEN GraphQLInt ELSE GraphQLFloat]
       [] desc.type = "object" -> objectType(st1, id, isInput, typeName)
       [] desc.type = "array" -> arrayType(st1, id, isInput, typeName)
       [] desc.type = "alternatives" ->
            alternativesType(st1, id, isInput, typeName)

\* uniqueId() is called only when the first annotation carries no name
withTypeName(st, id) ==
  IF meta0(st.descs[id]).name # "" THEN st
  ELSE [st EXCEPT !.idCounter = @ + 1]

descToType(st, id, isInput) ==
  descToTypeEnd(st.build, id, isInput,
    isInput /\ presence(st.descs[id], "required"),
    descToTypeByKind(withTypeName(st, id), id, isInput,
      typeNameOf(isInput, meta0(st.descs[id]).name,
                 withTypeName(st, id).idCounter)))

\* assign(...flatten(children)): the first item's children object, when it
\* has one, is the target and is written to
mergedChildren(st, items) ==
  IF Len(items) > 0 /\ st.descs[items[1]].hasChildren
  THEN assign(st, st.descs[items[1]].children, Tail(items))
  ELSE assign(st, <<>>, items)

afterAssign(st, items) ==
  IF Len(items) > 0 /\ st.descs[items[1]].hasChildren
  THEN [st EXCEPT !.descs[items[1]].children = mergedChildren(st, items)]
  ELSE st

inputComposite(build, id, typeName, merged, fields) ==
  New(fields.st, T("InputObject", typeName, fields.val, 0, <<>>, <<>>,
                   build, merged, id))

makeArrayAlternativeTypeOf(isInput, typeName, id, items, build, types) ==
  IF cached(types.st, typeName) # 0
  THEN [st |-> types.st, val |-> cached(types.st, typeName)]
  ELSE IF isInput
  THEN inputComposite(build, id, typeName, mergedChildren(types.st, items),
         descsToFields(afterAssign(types.st, items),
                       mergedChildren(types.st, items)))
  ELSE New(types.st, T("Union", typeName, <<>>, 0, types.val, items, build,
                       <<>>, id))

makeArrayAlternativeType(st, isInput, typeName, id, items) ==
  makeArrayAlternativeTypeOf(isInput, typeName, id, items, st.build,
                             itemTypes(st, items, isInput, 1, <<>>))

argsLoopNext(argsSchema, i, acc, t) ==
  argsLoop(t.st, argsSchema, i + 1,
    Append(acc, [key |-> argsSchema[i].key, type |-> t.val,
                 desc |-> argsSchema[i].desc]))

argsLoop(st, argsSchema, i, acc) ==
  IF i > Len(argsSchema) THEN [st |-> st, val |-> acc]
  ELSE IF presence(st.descs[argsSchema[i].desc], "forbidden")
       THEN argsLoop(st, argsSchema, i + 1, acc)
  ELSE argsLoopNext(argsSchema, i, acc,
                    descToType(st, argsSchema[i].desc, TRUE))

\* undefined (here <<>>) when the description carries no args annotation
descToArgs(st, id) ==
  IF Len(meta0(st.descs[id]).args) = 0 THEN [st |-> st, val |-> <<>>]
  ELSE argsLoop(st, meta0(st.descs[id]).args, 1, <<>>)

fieldsLoopArgs(ds, i, acc, type, a) ==
  fieldsLoop(a.st, ds, i + 1,
    Append(acc, [key |-> ds[i].key, type |-> type, args |-> a.val,
                 desc |-> ds[i].desc, resolve |-> TRUE]))

fieldsLoopNext(ds, i, acc, t) ==
  fieldsLoopArgs(ds, i, acc, t.val, descToArgs(t.st, ds[i].desc))

fieldsLoop(st, ds, i, acc) ==
  IF i > Len(ds) THEN [st |-> st, val |-> acc]
  ELSE IF presence(st.descs[ds[i].desc], "forbidden")
       THEN fieldsLoop(st, ds, i + 1, acc)
  ELSE fieldsLoopNext(ds, i, acc, descToType(st, ds[i].desc, FALSE))

descsToFields(st, ds) == fieldsLoop(st, ds, 1, <<>>)

rootNew(build, name, root, f) ==
  New(f.st, T("Object", name, f.val, 0, <<>>, <<>>, build, root, 0))

\* new GraphQLObjectType({ name, fields: descsToFields(...) })
rootType(st, name, root) ==
  rootNew(st.build, name, root, descsToFields(st, root))

\* the mutation root, when given, after the query root
withMutation(jois, q) ==
  IF jois.hasMutation
  THEN rootType(q.st, "RootMutationType", jois.mutation)
  ELSE [st |-> q.st, val |-> 0]

exports(st, jois) ==
  withMutation(jois,
    IF jois.hasQuery THEN rootType(st, "RootQueryType", jois.query)
    ELSE [st |-> st, val |-> 0])

(***************************************************************************)
(* resolveType of a union (the closure built at src/index.js:131).         *)
(***************************************************************************)
\* Values handed to resolveType: objects, as the list of their own keys in
\* insertion order.
Values ==
  {<<>>, <<"a">>, <<"b">>, <<"c">>, <<"a", "b">>, <<"b", "a">>}

\* The user's isTypeOf predicates, by name.
callIsTypeOf(p, val) ==
  CASE p = "hasA" -> \E i \in 1..Len(val) : val[i] = "a"

\* keys(item.children); keys(undefined) is []
keys(children) == [i \in 1..Len(children) |-> children[i].key]

\* lodash isEqual of two arrays of strings: same length, same element at
\* every index
isEqual(a, b) ==
  Len(a) = Len(b) /\ \A i \in 1..Len(a) : a[i] = b[i]

\* The description node id as build `build` left it.
descOf(build, id) ==
  IF id \in DOMAIN descs[build] THEN descs[build][id] ELSE Schema[id]

\* find(xs): the first truthy element, undefined (0) when there is none
find(xs, i) ==
  IF i > Len(xs) THEN 0 ELSE IF xs[i] # 0 THEN xs[i] ELSE find(xs, i + 1)

\* Mutant of resolveType: candidates are matched by their keys only.
resolveTypeByKeys(type, val) ==
  LET items == heap[type].items
      types == heap[type].types
      mapped == [i \in 1..Len(items) |->
        IF isEqual(val, keys(descOf(heap[type].build, items[i]).children))
        THEN types[i] ELSE 0]
  IN find(mapped, 1)

resolveType(type, val) ==
  LET items == heap[type].items
      types == heap[type].types
      mapped == [i \in 1..Len(items) |->
        LET item == descOf(heap[type].build, items[i])
            isTypeOf == meta0(item).isTypeOf
        IN IF isTypeOf # ""
           THEN (IF callIsTypeOf(isTypeOf, val) THEN types[i] ELSE 0)
           ELSE (IF isEqual(val, keys(item.children)) THEN types[i] ELSE 0)]
  IN find(mapped, 1)

(***************************************************************************)
(* Joi.validate(args, argsSchema), for the argument values that occur.     *)
(* A value is "n:1" (the number 1), "n:1.5", "s:1" (the string '1') or     *)
(* "s:x".                                                                  *)
(***************************************************************************)
joiValue(id, v) ==
  LET d == Schema[id]
      integer == \E r \in 1..Len(d.rules) : d.rules[r] = "integer"
      err == [error |-> TRUE, value |-> v]
  IN CASE d.type = "number" ->
            IF v = "s:x" \/ (v = "n:1.5" /\ integer) THEN err
            ELSE [error |-> FALSE, value |-> IF v = "s:1" THEN "n:1" ELSE v]
       [] d.type = "string" ->
            IF v \in {"s:1", "s:x"} THEN [error |-> FALSE, value |-> v]
            ELSE err
       [] d.type = "alternatives" -> joiAlternatives(d.items, v, 1)
       [] OTHER -> err

joiAlternatives(alternatives, v, i) ==
  IF i > Len(alternatives) THEN [error |-> TRUE, value |-> v]
  ELSE LET r == joiValue(alternatives[i], v)
       IN IF r.error THEN joiAlternatives(alternatives, v, i + 1) ELSE r

joiValidate(args, argsSchema) ==
  LET schemaAt(k) == {j \in 1..Len(argsSchema) : argsSchema[j].key = k}
      has(k) == \E i \in 1..Len(args) : args[i].key = k
      conv(i) == joiValue(argsSchema[CHOOSE j \in schemaAt(args[i].key) : TRUE].desc,
                          args[i].value)
      error ==
        \/ \E i \in 1..Len(args) : schemaAt(args[i].key) = {}
        \/ \E j \in 1..Len(argsSchema) :
             LET d == Schema[argsSchema[j].desc]
             IN \/ d.presence = "required" /\ ~has(argsSchema[j].key)
                \/ d.presence = "forbidden" /\ has(argsSchema[j].key)
        \/ \E i \in 1..Len(args) : conv(i).error
  IN [error |-> error,
      value |-> IF error THEN args
                ELSE [i \in 1..Len(args) |->
                        [key |-> args[i].key, value |-> conv(i).value]]]

V(key, value) == [key |-> key, value |-> value]

\* The args objects resolvers are invoked with.
ArgObjects ==
  { <<>>,
    <<V("id", "s:1")>>,
    <<V("id", "n:1"), V("opt", "s:x")>>,
    <<V("opt", "s:x")>>,
    <<V("id", "n:1.5")>>,
    <<V("id", "n:1"), V("hidden", "s:x")>>,
    <<V("filter", "s:x")>>,
    <<V("choice", "n:1")>> }

Out(validated, threw, called, with, default) ==
  [validated |-> validated, threw |-> threw, called |-> called,
   with |-> with, default |-> default]

\* Mutant of validatedResolve: the resolver gets the raw args after a
\* successful validation.
validatedResolveRaw(desc, args) ==
  LET resolve == IF Len(desc.meta) > 0 THEN desc.meta[1].resolve ELSE ""
      v == joiValidate(args, meta0(desc).args)
  IN IF Len(args) > 0
     THEN IF v.error THEN Out(TRUE, "ValidationError", FALSE, <<>>, FALSE)
          ELSE IF resolve = "" THEN Out(TRUE, "TypeError", FALSE, <<>>, FALSE)
          ELSE Out(TRUE, "", TRUE, args, FALSE)
     ELSE IF resolve # "" THEN Out(FALSE, "", TRUE, args, FALSE)
     ELSE Out(FALSE, "", FALSE, <<>>, TRUE)

\* validatedResolve(desc)(source, args, root, opts): what one invocation does
validatedResolve(desc, args) ==
  LET resolve == IF Len(desc.meta) > 0 THEN desc.meta[1].resolve ELSE ""
      argsSchema == meta0(desc).args
      v == joiValidate(args, argsSchema)
  IN IF Len(args) > 0
     THEN IF v.error THEN Out(TRUE, "ValidationError", FALSE, <<>>, FALSE)
          ELSE IF resolve = "" THEN Out(TRUE, "TypeError", FALSE, <<>>, FALSE)
          ELSE Out(TRUE, "", TRUE, v.value, FALSE)
     ELSE IF resolve # "" THEN Out(FALSE, "", TRUE, args, FALSE)
     ELSE Out(FALSE, "", FALSE, <<>>, TRUE)

NoResolved == [union |-> 0, val |-> <<>>, ret |-> 0]
NoInvoked == [desc |-> 0, args |-> <<>>, out |-> Out(FALSE, "", FALSE, <<>>, FALSE)]

Init ==
  /\ cachedTypes = EmptyCache
  /\ idCounter = 0
  /\ heap = Scalars
  /\ descs = <<>>
  /\ calls = <<>>
  /\ writes = <<>>
  /\ builds = 0
  /\ resolved = NoResolved
  /\ invoked = NoInvoked

\* The description nodes of a build that were written to, with the contents
\* they are left with; every other node is as Schema has it.
written(ds) ==
  [id \in {i \in 1..Len(ds) : ds[i] # Schema[i]} |-> ds[id]]

Built(r) ==
  /\ cachedTypes' = r.st.cachedTypes
  /\ idCounter' = r.st.idCounter
  /\ heap' = r.st.heap
  /\ descs' = Append(descs, written(r.st.descs))
  /\ calls' = r.st.calls
  /\ writes' = r.st.writes
  /\ builds' = builds + 1

\* module.exports = (jois) => ...
\* Resolvers and resolveType run on a built schema and change nothing of the
\* cache, the counter or the types, so builds are explored before them.
Build(jois) ==
  /\ builds < MaxBuilds
  /\ resolved = NoResolved /\ invoked = NoInvoked
  /\ Built(exports([cachedTypes |-> cachedTypes, idCounter |-> idCounter,
                    heap |-> heap, descs |-> Schema, calls |-> calls,
                    writes |-> writes, build |-> builds + 1], jois))
  /\ UNCHANGED <<resolved, invoked>>

\* The execution engine asks a built union for the type of a value.
ResolveType(type, val) ==
  /\ heap[type].kind = "Union"
  /\ resolved' = [union |-> type, val |-> val, ret |-> resolveType(type, val)]
  /\ invoked' = NoInvoked
  /\ UNCHANGED <<cachedTypes, idCounter, heap, descs, calls, writes, builds>>

\* The execution engine invokes the resolver of a built field.  It passes
\* arguments only to a field that declares arguments.
Invoke(type, f, args) ==
  /\ heap[type].fields[f].resolve
  /\ Len(args) > 0 => Len(heap[type].fields[f].args) > 0
  /\ invoked' = [desc |-> heap[type].fields[f].desc, args |-> args,
                 out |-> validatedResolve(Schema[heap[type].fields[f].desc], args)]
  /\ resolved' = NoResolved
  /\ UNCHANGED <<cachedTypes, idCounter, heap, descs, calls, writes, builds>>

Next ==
  \/ \E jois \in Jois : Build(jois)
  \/ \E type \in 1..Len(heap), val \in Values : ResolveType(type, val)
  \/ \E type \in 1..Len(heap) : \E f \in 1..Len(heap[type].fields) :
       \E args \in ArgObjects : Invoke(type, f, args)

Spec == Init /\ [][Next]_vars

(***************************************************************************)
(* The claims.  A description's flags and annotations are read off Schema: *)
(* the translation writes to children mappings only.                       *)
(***************************************************************************)
IsForbidden(id) == Schema[id].presence = "forbidden"
IsRequired(id) == Schema[id].presence = "required"
NameAnnotation(id) ==
  IF Len(Schema[id].meta) > 0 THEN Schema[id].meta[1].name ELSE ""

KeptItems(ids) == LET keep(i) == ~IsForbidden(i) IN SelectSeq(ids, keep)
KeptEntries(kv) == LET keep(e) == ~IsForbidden(e.desc) IN SelectSeq(kv, keep)
Entries(fs) == [i \in 1..Len(fs) |-> K(fs[i].key, fs[i].desc)]

\* The type under a NonNull wrapper, and the named type under a list.
Unwrapped(t) == IF heap[t].kind = "NonNull" THEN heap[t].ofType ELSE t
Named(t) ==
  IF heap[Unwrapped(t)].kind = "List"
  THEN Unwrapped(heap[Unwrapped(t)].ofType) ELSE Unwrapped(t)

IsMultiArray(id) ==
  Schema[id].type = "array" /\ Len(KeptItems(Schema[id].items)) > 1

\* descToType returned ret for description desc of this build and position
Returned(build, desc, isInput, ret) ==
  \E c \in 1..Len(calls) :
    calls[c] = [build |-> build, desc |-> desc, isInput |-> isInput,
                ret |-> ret]

\* C1: within one build, two object descriptions with the same explicit name
\* annotation, translated in the same position, get the identical type
\* instance (the NonNull wrapper of a required input aside), wherever they
\* sit in the tree.
C1_SameNameSameInstance ==
  \A i, j \in 1..Len(calls) :
    ( /\ calls[i].build = calls[j].build
      /\ calls[i].isInput = calls[j].isInput
      /\ Schema[calls[i].desc].type = "object"
      /\ Schema[calls[j].desc].type = "object"
      /\ NameAnnotation(calls[i].desc) # ""
      /\ NameAnnotation(calls[i].desc) = NameAnnotation(calls[j].desc) )
    => Unwrapped(calls[i].ret) = Unwrapped(calls[j].ret)

\* C2: the cache is write-once per name: every instance ever stored under a
\* name is the one the cache holds for that name from then on.
C2_CacheWriteOnce ==
  \A i \in 1..Len(writes) :
    /\ writes[i].name \in DOMAIN cachedTypes
    /\ cachedTypes[writes[i].name] = writes[i].type

\* C3: every field of an input object type (children of input objects and
\* fields of merged input objects) and every argument whose description is
\* required has a NonNull type, and no field of an output object type is
\* NonNull.
C3_RequiredIsNonNullInInputOnly ==
  \A n \in 1..Len(heap) : \A f \in 1..Len(heap[n].fields) :
    /\ \A a \in 1..Len(heap[n].fields[f].args) :
         IsRequired(heap[n].fields[f].args[a].desc)
           => heap[heap[n].fields[f].args[a].type].kind = "NonNull"
    /\ (heap[n].kind = "InputObject" /\ IsRequired(heap[n].fields[f].desc))
         => heap[heap[n].fields[f].type].kind = "NonNull"
    /\ heap[n].kind = "Object"
         => heap[heap[n].fields[f].type].kind # "NonNull"

CompositeName(items, isInput) ==
  join([i \in 1..Len(items) |->
          (IF isInput THEN "Input" ELSE "") \o
          (IF NameAnnotation(items[i]) # ""
           THEN capitalize(NameAnnotation(items[i]))
           ELSE capitalize(Schema[items[i]].type))], "Or", 1)

\* C5: the composite type of an array or alternatives node with more than
\* one non-forbidden item is named, and cached under, the "Or"-joined names
\* of its items.
C5_CompositeNamedAfterItems ==
  \A c \in 1..Len(calls) :
    ( /\ Schema[calls[c].desc].type \in {"array", "alternatives"}
      /\ Len(KeptItems(Schema[calls[c].desc].items)) > 1 )
    => LET name == CompositeName(KeptItems(Schema[calls[c].desc].items),
                                 calls[c].isInput)
       IN /\ heap[Named(calls[c].ret)].name = name
          /\ name \in DOMAIN cachedTypes
          /\ cachedTypes[name] = Named(calls[c].ret)

\* The candidates of the union last asked, as its closure sees them.
Candidate(i) ==
  descOf(heap[resolved.union].build, heap[resolved.union].items[i])
Candidates == 1..Len(heap[resolved.union].items)
HasPredicate(i) ==
  Len(Candidate(i).meta) > 0 /\ Candidate(i).meta[1].isTypeOf # ""
PredicateHolds(i) ==
  HasPredicate(i) /\ callIsTypeOf(Candidate(i).meta[1].isTypeOf, resolved.val)
ChildNames(i) == keys(Candidate(i).children)
SameKeyList(i) == resolved.val = ChildNames(i)
SameKeySet(i) ==
  {resolved.val[k] : k \in 1..Len(resolved.val)} =
  {ChildNames(i)[k] : k \in 1..Len(ChildNames(i))}

\* A candidate matches, as the code decides it.
Matches(i) == IF HasPredicate(i) THEN PredicateHolds(i) ELSE SameKeyList(i)

\* C6 (as claimed): a candidate whose isTypeOf predicate holds for the value
\* is the one returned, whatever its position.
C6_PredicateAlwaysWins ==
  resolved.union # 0 =>
    \A i \in Candidates :
      PredicateHolds(i) => resolved.ret = heap[resolved.union].types[i]

\* C6 (amended): a candidate whose isTypeOf predicate holds for the value is
\* the one returned when no candidate before it in the list matches.
C6_PredicateWinsWhenFirst ==
  resolved.union # 0 =>
    \A i \in Candidates :
      (PredicateHolds(i) /\ \A j \in 1..(i - 1) : ~Matches(j))
        => resolved.ret = heap[resolved.union].types[i]

\* C6 witness: the predicate's candidate is returned although a later
\* candidate without predicate has exactly the value's keys.
C6_Witness ==
  /\ resolved.union # 0
  /\ \E i, j \in Candidates :
       /\ i < j
       /\ PredicateHolds(i)
       /\ ~HasPredicate(j) /\ SameKeyList(j)
       /\ heap[resolved.union].types[i] # heap[resolved.union].types[j]
       /\ resolved.ret = heap[resolved.union].types[i]

\* C7: with empty args nothing is validated and the user's resolve gets the
\* raw args; with non-empty args that fail validation the failure is raised
\* and resolve is not called; resolve is called with validated values only
\* after a successful validation.
C7_ValidatedResolve ==
  invoked.desc # 0 =>
    LET desc == Schema[invoked.desc]
        v == joiValidate(invoked.args, meta0(desc).args)
    IN /\ Len(invoked.args) = 0 =>
            /\ ~invoked.out.validated
            /\ invoked.out.threw = ""
            /\ meta0(desc).resolve # "" =>
                 invoked.out.called /\ invoked.out.with = invoked.args
       /\ (Len(invoked.args) > 0 /\ v.error) =>
            /\ invoked.out.threw = "ValidationError"
            /\ ~invoked.out.called
       /\ (Len(invoked.args) > 0 /\ invoked.out.called) =>
            /\ invoked.out.validated
            /\ ~v.error
            /\ invoked.out.with = v.value

\* C7 witness: a resolver invoked with non-empty args that fail validation.
C7_Witness ==
  /\ invoked.desc # 0
  /\ Len(invoked.args) > 0
  /\ joiValidate(invoked.args, meta0(Schema[invoked.desc]).args).error
  /\ invoked.out.threw = "ValidationError"

\* Anonymous names handed out so far: 'Anon' + uniqueId(), in either position
AnonNames ==
  {typeNameOf(i, "", k) : i \in BOOLEAN, k \in 1..idCounter}

\* The named type of a call on an anonymous node is one no other anonymous
\* node of the kinds given has got, and bears a counter name no other type
\* bears.
AnonymousNeverShared(isOfKind(_)) ==
  \A i \in 1..Len(calls) :
    (NameAnnotation(calls[i].desc) = "" /\ isOfKind(calls[i].desc)) =>
      /\ heap[Named(calls[i].ret)].name \in AnonNames
      /\ \A n \in 1..Len(heap) :
           heap[n].name = heap[Named(calls[i].ret)].name
             => n = Named(calls[i].ret)
      /\ \A j \in 1..Len(calls) :
           ( /\ NameAnnotation(calls[j].desc) = ""
             /\ isOfKind(calls[j].desc)
             /\ <<calls[i].build, calls[i].desc>> #
                  <<calls[j].build, calls[j].desc>> )
           => Named(calls[i].ret) # Named(calls[j].ret)

ObjectOrAlternatives(id) == Schema[id].type \in {"object", "alternatives"}
ObjectArrayOrAlternatives(id) == ObjectOrAlternatives(id) \/ IsMultiArray(id)

C9_DescriptionsUnchanged ==
  \A b \in 1..Len(descs) : DOMAIN descs[b] = {}

\* A candidate matches, as C10 has it: by its predicate, or, having none, by
\* the set of the value's keys.
MatchesBySet(i) == IF HasPredicate(i) THEN PredicateHolds(i) ELSE SameKeySet(i)

\* C10: resolveType returns the first candidate in list order that matches,
\* a candidate without predicate matching exactly when the set of the
\* value's keys equals the set of its child names; it returns no type when
\* none matches.
C10_MatchByKeySet ==
  resolved.union # 0 =>
    /\ (\A i \in Candidates : ~MatchesBySet(i)) => resolved.ret = 0
    /\ \A i \in Candidates :
         (MatchesBySet(i) /\ \A j \in 1..(i - 1) : ~MatchesBySet(j))
           => resolved.ret = heap[resolved.union].types[i]
====
